---- MODULE Spec2Model ----
(***************************************************************************)
(* A model of password_generator.py: the generate-and-validate loop of     *)
(* generate_password, the helpers it validates with, copy_to_clipboard    *)
(* and main.                                                               *)
(*                                                                         *)
(* A character is a one-character string, a password a sequence of        *)
(* characters. The class strings of the source are modelled as the sets   *)
(* of their characters: the code only tests membership in them and draws  *)
(* from them.                                                              *)
(***************************************************************************)
EXTENDS Integers, Sequences, FiniteSets, TLC

VARIABLES
    pc,               \* position of the program
    caller,           \* "main" or "direct": who called generate_password
    requested,        \* the length argument as passed (history of the call)
    length,           \* generate_password's local `length` after line 110
    password_chars,   \* generate_password's local list password_chars
    shuffle_i,        \* the index the shuffle of line 128 is at (1-based)
    password,         \* the candidate of line 129 / the value returned
    system,           \* platform.system() as read by copy_to_clipboard
    commands,         \* the commands copy_to_clipboard has run, in order
    last_outcome,     \* how the last of those commands ended
    clipboard_success,\* main's local clipboard_success
    raised,           \* the exception that left copy_to_clipboard, or "none"
    printed,          \* what main has printed: <<>> or <<report>>
    char,             \* argument of get_char_class
    max_consecutive,  \* argument of has_consecutive_class_run
    op,               \* the helper last applied
    ret               \* what the helpers returned

vars == <<pc, caller, requested, length, password_chars, shuffle_i, password,
          system, commands, last_outcome, clipboard_success, raised, printed,
          char, max_consecutive, op, ret>>

genVars  == <<pc, caller, requested, length, password_chars, shuffle_i, password>>
clipVars == <<system, commands, last_outcome, clipboard_success, raised, printed>>
fnVars   == <<char, max_consecutive, op, ret>>

(***************************************************************************)
(* Bounds of the model.                                                    *)
(***************************************************************************)
\* The policy minimum. The source sets 20 (line 35); the model scales it
\* down so that every candidate of the loop can be enumerated.
MIN_LENGTH == 5

\* Longest password handed to the helpers when they are checked on their own.
MaxStr == 4

\* Largest max_consecutive handed to has_consecutive_class_run.
MaxRun == 4

(***************************************************************************)
(* Constant tables, lines 22-37.                                           *)
(***************************************************************************)
UPPERCASE == {"A","B","C","D","E","F","G","H","I","J","K","L","M",
              "N","O","P","Q","R","S","T","U","V","W","X","Y","Z"}

LOWERCASE == {"a","b","c","d","e","f","g","h","i","j","k","l","m",
              "n","o","p","q","r","s","t","u","v","w","x","y","z"}

DIGITS == {"0","1","2","3","4","5","6","7","8","9"}

PUNCTUATION == {"!","@","$","&","(",")","#","^","*"}

ALL_CHAR_CLASSES ==
    << <<"Uppercase", UPPERCASE>>,
       <<"Lowercase", LOWERCASE>>,
       <<"Digits", DIGITS>>,
       <<"Special Chars", PUNCTUATION>> >>

\* a policy asking for one class fewer
MIN_CLASSES_three == 4 - 1
\* line 36
MIN_CLASSES == 4

\* the forbidden first characters with every special character among them
FORBIDDEN_FIRST_CHARS_all_punct ==
    {"!","(",")","[","]","{","}","*",".","#","$"} \cup {"@","&","^"}
\* line 37
FORBIDDEN_FIRST_CHARS == {"!","(",")","[","]","{","}","*",".","#","$"}

\* the default of max_consecutive, line 69
DEFAULT_MAX_CONSECUTIVE == 3

ClassNames == {ALL_CHAR_CLASSES[k][1] : k \in DOMAIN ALL_CHAR_CLASSES}

(***************************************************************************)
(* The helpers, lines 40-96.                                               *)
(***************************************************************************)
\* any(c in S for c in password)
AnyIn(pw, S) == \E k \in DOMAIN pw : pw[k] \in S

check_password_classes(pw) ==
    [n \in {"Uppercase", "Lowercase", "Digits", "Special Chars"} |->
        CASE n = "Uppercase"     -> AnyIn(pw, UPPERCASE)
          [] n = "Lowercase"     -> AnyIn(pw, LOWERCASE)
          [] n = "Digits"        -> AnyIn(pw, DIGITS)
          [] n = "Special Chars" -> AnyIn(pw, PUNCTUATION)]

\* sum(classes.values()): True counts 1, False 0
count_classes(pw) ==
    LET classes == check_password_classes(pw)
    IN  Cardinality({n \in DOMAIN classes : classes[n]})

\* get_char_class without the branch of lines 64-65
get_char_class_no_special(c) ==
    IF c \in UPPERCASE THEN "Uppercase"
    ELSE IF c \in LOWERCASE THEN "Lowercase"
    ELSE IF c \in DIGITS THEN "Digits"
    ELSE "Unknown"

get_char_class(c) ==
    IF c \in UPPERCASE THEN "Uppercase"
    ELSE IF c \in LOWERCASE THEN "Lowercase"
    ELSE IF c \in DIGITS THEN "Digits"
    ELSE IF c \in PUNCTUATION THEN "Special Chars"
    ELSE "Unknown"

\* The for loop of lines 86-94 from position k on, with the loop's two locals.
RECURSIVE RunScan(_, _, _, _, _)
RunScan(pw, maxc, k, current_class, consecutive_count) ==
    IF k > Len(pw) THEN FALSE
    ELSE LET char_class == get_char_class(pw[k])
         IN  IF char_class = current_class
             THEN IF consecutive_count + 1 > maxc
                  THEN TRUE
                  ELSE RunScan(pw, maxc, k + 1, current_class, consecutive_count + 1)
             ELSE RunScan(pw, maxc, k + 1, char_class, 1)

\* The same loop restarting the count at 0 when the class changes.
RECURSIVE RunScanZero(_, _, _, _, _)
RunScanZero(pw, maxc, k, current_class, consecutive_count) ==
    IF k > Len(pw) THEN FALSE
    ELSE LET char_class == get_char_class(pw[k])
         IN  IF char_class = current_class
             THEN IF consecutive_count + 1 > maxc
                  THEN TRUE
                  ELSE RunScanZero(pw, maxc, k + 1, current_class, consecutive_count + 1)
             ELSE RunScanZero(pw, maxc, k + 1, char_class, 0)

has_consecutive_class_run_zero(pw, maxc) ==
    IF Len(pw) <= maxc THEN FALSE
    ELSE RunScanZero(pw, maxc, 2, get_char_class(pw[1]), 1)

\* the early return of line 80 taken one character too late
has_consecutive_class_run_early(pw, maxc) ==
    IF Len(pw) <= maxc + 1 THEN FALSE
    ELSE RunScan(pw, maxc, 2, get_char_class(pw[1]), 1)

has_consecutive_class_run(pw, maxc) ==
    IF Len(pw) <= maxc THEN FALSE
    ELSE RunScan(pw, maxc, 2, get_char_class(pw[1]), 1)

(***************************************************************************)
(* The random source. secrets.choice(s) may return any character of s;    *)
(* the model draws one representative of each kind of character the       *)
(* validation can tell apart: one per class, and for Special Chars one    *)
(* that may not come first ("!") and one that may ("@").                  *)
(***************************************************************************)
Sampled == {"A", "a", "0", "!", "@"}

choice(chars) == chars \cap Sampled

\* SystemRandom().sample(population, k): k elements at distinct positions,
\* in any order.
sample(population, k) ==
    {s \in [1..k -> DOMAIN population] :
        \A a, b \in 1..k : a # b => s[a] # s[b]}

\* choices with replacement instead of a sample
sample_with_replacement(population, k) == [1..k -> DOMAIN population]

(***************************************************************************)
(* generate_password, lines 99-136.                                        *)
(***************************************************************************)
\* the requested length ignored
clamp_always(n) == MIN_LENGTH
\* the requested length never raised to the minimum
clamp_never(n) == n
\* lines 109-110
clamp(n) == IF n < MIN_LENGTH THEN MIN_LENGTH ELSE n

\* line 113
all_chars == UPPERCASE \cup LOWERCASE \cup DIGITS \cup PUNCTUATION

\* line 118
\* the classes drawn with replacement
select_classes_repeating == sample_with_replacement(ALL_CHAR_CLASSES, MIN_CLASSES)
select_classes == sample(ALL_CHAR_CLASSES, MIN_CLASSES)

\* the condition of lines 132-135, checking the last character
valid_last(pw) ==
    /\ count_classes(pw) >= MIN_CLASSES
    /\ Len(pw) >= MIN_LENGTH
    /\ pw[Len(pw)] \notin FORBIDDEN_FIRST_CHARS
    /\ ~has_consecutive_class_run(pw, DEFAULT_MAX_CONSECUTIVE)

\* the condition of lines 132-135
valid(pw) ==
    /\ count_classes(pw) >= MIN_CLASSES
    /\ Len(pw) >= MIN_LENGTH
    /\ pw[1] \notin FORBIDDEN_FIRST_CHARS
    /\ ~has_consecutive_class_run(pw, DEFAULT_MAX_CONSECUTIVE)

\* The shortest password that can hold all MIN_CLASSES classes and a
\* same-class run longer than the default max_consecutive.
LongRequest == DEFAULT_MAX_CONSECUTIVE + MIN_CLASSES

\* The lengths generate_password is called with directly: one below the
\* minimum, and one above it at which every condition of the validation
\* can fail. main calls it with the default, MIN_LENGTH.
Requests == {MIN_LENGTH - 1, LongRequest}

\* main, line 179: generate_password() with the default length, through
\* lines 109-110.
MainCall ==
    /\ pc = "start"
    /\ pc' = "build"
    /\ caller' = "main"
    /\ requested' = MIN_LENGTH
    /\ length' = clamp(MIN_LENGTH)
    /\ UNCHANGED <<password_chars, shuffle_i, password>>
    /\ UNCHANGED clipVars
    /\ UNCHANGED fnVars

\* generate_password(n) called on its own, through lines 109-110.
DirectCall ==
    /\ pc = "start"
    /\ \E n \in Requests :
          /\ requested' = n
          /\ length' = clamp(n)
    /\ pc' = "build"
    /\ caller' = "direct"
    /\ UNCHANGED <<password_chars, shuffle_i, password>>
    /\ UNCHANGED clipVars
    /\ UNCHANGED fnVars

\* Lines 118-125 of one iteration: the classes sampled, one character of
\* each, and the fill from the whole pool.
Build ==
    /\ pc = "build"
    /\ \E selected_classes \in select_classes :
       \E first \in [DOMAIN selected_classes -> Sampled] :
          /\ \A k \in DOMAIN selected_classes :
                first[k] \in choice(ALL_CHAR_CLASSES[selected_classes[k]][2])
          /\ LET remaining_length == length - Len(first)
             IN  \E fill \in [1..remaining_length -> choice(all_chars)] :
                    password_chars' = first \o fill
    /\ shuffle_i' = Len(password_chars')
    /\ pc' = IF Len(password_chars') >= 2 THEN "shuffle" ELSE "validate"
    /\ password' = IF Len(password_chars') >= 2 THEN password ELSE password_chars'
    /\ UNCHANGED <<caller, requested, length>>
    /\ UNCHANGED clipVars
    /\ UNCHANGED fnVars

Swap(s, a, b) == [s EXCEPT ![a] = s[b], ![b] = s[a]]

\* Line 128, one round of random.shuffle: for i from the last index down to
\* the second, exchange x[i] with x[j] for a random j <= i. The last round
\* is followed by the join of line 129.
ShuffleStep ==
    /\ pc = "shuffle"
    /\ \E j \in 1..shuffle_i :
          password_chars' = Swap(password_chars, shuffle_i, j)
    /\ shuffle_i' = shuffle_i - 1
    /\ IF shuffle_i = 2
       THEN /\ pc' = "validate"
            /\ password' = password_chars'
       ELSE /\ pc' = "shuffle"
            /\ password' = password
    /\ UNCHANGED <<caller, requested, length>>
    /\ UNCHANGED clipVars
    /\ UNCHANGED fnVars

\* Lines 132-136: return the candidate, or go round the loop again. The
\* locals of the iteration are dead from here on: they are cleared.
Validate ==
    /\ pc = "validate"
    /\ IF valid(password)
       THEN /\ pc' = "done"
            /\ password' = password
       ELSE /\ pc' = "build"
            /\ password' = <<>>
    /\ password_chars' = <<>>
    /\ shuffle_i' = 0
    /\ UNCHANGED <<caller, requested, length>>
    /\ UNCHANGED clipVars
    /\ UNCHANGED fnVars


(***************************************************************************)
(* copy_to_clipboard, lines 139-174.                                       *)
(***************************************************************************)
\* platform.system(): the three names the code dispatches on, and one other.
Systems == {"Darwin", "Linux", "Windows", "FreeBSD"}

Commands == {"pbcopy", "xclip", "xsel", "clip"}

\* How subprocess.run(..., check=True) can end: it returns, the command
\* exits non-zero, or the command is not installed.
RunOutcomes == {"ok", "CalledProcessError", "FileNotFoundError"}

\* the except clause of line 173, without FileNotFoundError
Caught_only_called_process_error == {"CalledProcessError"}
\* the except clause of line 173
Caught == {"CalledProcessError", "FileNotFoundError"}

\* Lines 152-172, the body of the outer try, with run[c] the way command c
\* ends when it is run: the commands run, the exception that leaves the
\* body ("ok" for none) and the value the body returns when none does.
TryBody(sys, run) ==
    CASE sys = "Darwin" ->
            [cmds |-> <<"pbcopy">>, exc |-> run["pbcopy"], returns |-> TRUE]
      [] sys = "Linux" ->
            IF run["xclip"] = "FileNotFoundError"
            THEN [cmds |-> <<"xclip", "xsel">>, exc |-> run["xsel"], returns |-> TRUE]
            ELSE [cmds |-> <<"xclip">>, exc |-> run["xclip"], returns |-> TRUE]
      [] sys = "Windows" ->
            [cmds |-> <<"clip">>, exc |-> run["clip"], returns |-> TRUE]
      [] OTHER ->
            [cmds |-> <<>>, exc |-> "ok", returns |-> FALSE]

copy_to_clipboard(sys, run) ==
    LET body == TryBody(sys, run)
        last == IF body.cmds = <<>> THEN "none" ELSE run[body.cmds[Len(body.cmds)]]
    IN  IF body.exc = "ok"
        THEN [ret |-> body.returns, raised |-> "none", cmds |-> body.cmds, last |-> last]
        ELSE IF body.exc \in Caught
        THEN [ret |-> FALSE, raised |-> "none", cmds |-> body.cmds, last |-> last]
        ELSE [ret |-> FALSE, raised |-> body.exc, cmds |-> body.cmds, last |-> last]

(***************************************************************************)
(* main, lines 177-202.                                                    *)
(***************************************************************************)
\* What lines 185-202 print: the length, the class checklist with its
\* count, and the clipboard line.
Report(pw, success) ==
    [length    |-> Len(pw),
     classes   |-> check_password_classes(pw),
     count     |-> count_classes(pw),
     clipboard |-> success]

\* Lines 180-202, after generate_password has returned to main: the copy to
\* the clipboard and the report. An exception leaving copy_to_clipboard
\* ends main before anything is printed.
MainRest ==
    /\ pc = "done"
    /\ caller = "main"
    /\ \E sys \in Systems, run \in [Commands -> RunOutcomes] :
          LET r == copy_to_clipboard(sys, run)
          IN  /\ system' = sys
              /\ commands' = r.cmds
              /\ last_outcome' = r.last
              /\ raised' = r.raised
              /\ IF r.raised = "none"
                 THEN /\ clipboard_success' = r.ret
                      /\ printed' = <<Report(password, r.ret)>>
                      /\ pc' = "exit"
                 ELSE /\ clipboard_success' = clipboard_success
                      /\ printed' = <<>>
                      /\ pc' = "crashed"
    /\ UNCHANGED <<caller, requested, length, password_chars, shuffle_i, password>>
    /\ UNCHANGED fnVars

(***************************************************************************)
(* The program: main, or a direct call of generate_password.              *)
(***************************************************************************)
NoRet == [cls |-> "", run |-> FALSE, present |-> [n \in ClassNames |-> FALSE], count |-> 0]

Init ==
    /\ pc = "start"
    /\ caller = "none"
    /\ requested = 0
    /\ length = 0
    /\ password_chars = <<>>
    /\ shuffle_i = 0
    /\ password = <<>>
    /\ system = "none"
    /\ commands = <<>>
    /\ last_outcome = "none"
    /\ clipboard_success = FALSE
    /\ raised = "none"
    /\ printed = <<>>
    /\ char = "A"
    /\ max_consecutive = DEFAULT_MAX_CONSECUTIVE
    /\ op = "none"
    /\ ret = NoRet

Next ==
    \/ MainCall
    \/ DirectCall
    \/ Build
    \/ ShuffleStep
    \/ Validate
    \/ MainRest

Spec == Init /\ [][Next]_vars


(***************************************************************************)
(* Properties of generate_password.                                        *)
(***************************************************************************)
\* generate_password has returned `password`.
Returned == pc \in {"done", "exit", "crashed"}

SameClassRun(pw, from, n) ==
    \A k \in from..(from + n - 1) : get_char_class(pw[k]) = get_char_class(pw[from])

\* pw holds n consecutive characters of one class somewhere.
HasRunOfLength(pw, n) ==
    \E from \in 1..(Len(pw) - n + 1) : SameClassRun(pw, from, n)

\* C1: a password returned by generate_password(n) has length exactly
\* max(n, MIN_LENGTH): n when n is at least the minimum, the minimum when
\* n is below it.
C1_LengthIsClampedRequest ==
    Returned =>
        Len(password) = (IF requested >= MIN_LENGTH THEN requested ELSE MIN_LENGTH)

\* a request below the minimum has returned a password of the minimum length
C1_Witness ==
    /\ pc = "done"
    /\ requested = MIN_LENGTH - 1
    /\ Len(password) = MIN_LENGTH

\* C2: every password returned holds at least one character of each of the
\* four classes, so count_classes of it is 4.
C2_AllClassesPresent ==
    Returned =>
        /\ \A k \in DOMAIN ALL_CHAR_CLASSES :
              \E i \in DOMAIN password : password[i] \in ALL_CHAR_CLASSES[k][2]
        /\ count_classes(password) = 4

\* a password was returned in which one class occurs exactly once
C2_Witness ==
    /\ pc = "done"
    /\ Cardinality({i \in DOMAIN password : password[i] \in DIGITS}) = 1

\* C3: the first character of every password returned is outside the
\* forbidden-first-character set.
C3_FirstCharAllowed ==
    Returned => password[1] \notin FORBIDDEN_FIRST_CHARS

\* a password was returned whose buffer held a forbidden character, which
\* the shuffle and the validation kept off the first position
C3_Witness ==
    /\ pc = "done"
    /\ \E i \in DOMAIN password : password[i] \in FORBIDDEN_FIRST_CHARS
    /\ password[1] \in PUNCTUATION

\* C4: no password returned holds 4 or more consecutive characters of one
\* class.
C4_NoRunOfFour ==
    Returned => ~HasRunOfLength(password, 4)

\* a password long enough to hold a run of 4 was returned with a run of 3
C4_Witness ==
    /\ pc = "done"
    /\ Len(password) >= LongRequest
    /\ HasRunOfLength(password, 3)

\* C10: every candidate the loop builds has the clamped length and all four
\* classes, so the class-count and length conditions of the validation hold
\* for it, and it is rejected only for its first character or for a run.
C10_CandidateWellFormed ==
    pc = "validate" =>
        /\ Len(password) = (IF requested >= MIN_LENGTH THEN requested ELSE MIN_LENGTH)
        /\ count_classes(password) >= MIN_CLASSES
        /\ Len(password) >= MIN_LENGTH
        /\ ~valid(password) =>
              \/ password[1] \in FORBIDDEN_FIRST_CHARS
              \/ HasRunOfLength(password, 4)

\* a candidate is about to be rejected for a run of 4 alone
C10_Witness ==
    /\ pc = "validate"
    /\ ~valid(password)
    /\ password[1] \notin FORBIDDEN_FIRST_CHARS
    /\ HasRunOfLength(password, 4)

(***************************************************************************)
(* Termination. Every draw of the random source is independent and every  *)
(* outcome has positive probability, so an outcome that is possible        *)
(* infinitely often is eventually drawn: strong fairness of the draw. It   *)
(* is stated for one buffer per length, Good(length), which holds no       *)
(* forbidden first character and no class often enough for a run of 4.    *)
(***************************************************************************)
GoodPattern == <<"A", "a", "0", "@">>

Good(n) == [k \in 1..n |-> GoodPattern[((k - 1) % 4) + 1]]

\* the iteration whose draws of lines 118-125 give Good(length)
BuildGood ==
    /\ pc = "build"
    /\ password_chars' = Good(length)
    /\ Build

\* The shuffle and the validation run to their end (the code does not
\* stop between two statements); the draws of an iteration are strongly
\* fair.
Fairness ==
    /\ WF_vars(ShuffleStep)
    /\ WF_vars(Validate)
    /\ SF_vars(BuildGood)

FairSpec == Init /\ [][Next]_vars /\ Fairness

InLoop == pc \in {"build", "shuffle", "validate"}

\* C9: generate_password terminates: once called, under fairness of the
\* random draws, the retry loop eventually returns a password.
C9_Terminates == InLoop ~> Returned

\* the loop has returned the buffer the fair draw gives, for a length above
\* the minimum
C9_Witness ==
    /\ pc = "done"
    /\ length > MIN_LENGTH
    /\ password = Good(length)

(***************************************************************************)
(* Properties of copy_to_clipboard and main.                               *)
(***************************************************************************)
Supported == {"Darwin", "Linux", "Windows"}

FnChars == all_chars \cup FORBIDDEN_FIRST_CHARS \cup {" ", "-", "_", "~"}

\* Characters of the passwords handed to the helpers: two of one class, one
\* of each other class, and one of no class.
FnAlphabet == {"A", "B", "a", "0", "!", "["}

FnPasswords == UNION {[1..n -> FnAlphabet] : n \in 0..MaxStr}

FnInit ==
    /\ pc = "fn"
    /\ caller = "none"
    /\ requested = 0
    /\ length = 0
    /\ password_chars = <<>>
    /\ shuffle_i = 0
    /\ system = "none"
    /\ commands = <<>>
    /\ last_outcome = "none"
    /\ clipboard_success = FALSE
    /\ raised = "none"
    /\ printed = <<>>
    /\ op = "none"
    /\ ret = NoRet
    /\ \/ /\ char \in FnChars
          /\ password = <<>>
          /\ max_consecutive = DEFAULT_MAX_CONSECUTIVE
       \/ /\ char = "A"
          /\ password \in FnPasswords
          /\ max_consecutive \in 0..MaxRun

GetCharClass ==
    /\ op = "none"
    /\ op' = "get_char_class"
    /\ ret' = [ret EXCEPT !.cls = get_char_class(char)]
    /\ UNCHANGED <<char, max_consecutive>>
    /\ UNCHANGED genVars
    /\ UNCHANGED clipVars

HasConsecutiveClassRun ==
    /\ op = "none"
    /\ op' = "has_consecutive_class_run"
    /\ ret' = [ret EXCEPT !.run = has_consecutive_class_run(password, max_consecutive)]
    /\ UNCHANGED <<char, max_consecutive>>
    /\ UNCHANGED genVars
    /\ UNCHANGED clipVars

CountClasses ==
    /\ op = "none"
    /\ op' = "count_classes"
    /\ ret' = [ret EXCEPT !.present = check_password_classes(password),
                          !.count = count_classes(password)]
    /\ UNCHANGED <<char, max_consecutive>>
    /\ UNCHANGED genVars
    /\ UNCHANGED clipVars

FnNext ==
    \/ GetCharClass
    \/ HasConsecutiveClassRun
    \/ CountClasses

SpecFn == FnInit /\ [][FnNext]_vars

ClassSetsHolding(c) ==
    {k \in DOMAIN ALL_CHAR_CLASSES : c \in ALL_CHAR_CLASSES[k][2]}

\* C6: get_char_class maps every character of the pool to the name of the
\* one class set that holds it, and every other character to "Unknown".
C6_GetCharClassTotal ==
    op = "get_char_class" =>
        /\ char \in all_chars =>
              /\ Cardinality(ClassSetsHolding(char)) = 1
              /\ \A k \in ClassSetsHolding(char) : ret.cls = ALL_CHAR_CLASSES[k][1]
        /\ char \notin all_chars => ret.cls = "Unknown"

\* a special character that may come first was classified
C6_Witness ==
    /\ op = "get_char_class"
    /\ char = "^"
    /\ ret.cls = "Special Chars"

\* the password holds a same-class run of more than maxc characters
HasRunOver(pw, maxc) ==
    \E n \in (maxc + 1)..Len(pw) : HasRunOfLength(pw, n)

\* the password holds a same-class run of more than maxc characters that is
\* at least two characters long
HasRunOverOfTwo(pw, maxc) ==
    \E n \in (maxc + 1)..Len(pw) : n >= 2 /\ HasRunOfLength(pw, n)

C8_Original ==
    char \in PUNCTUATION => char \in FORBIDDEN_FIRST_CHARS

\* C8 as amended: the forbidden first characters hold the six special
\* characters ! $ ( ) # * and not the other three, @ & ^.
C8_Amended ==
    char \in PUNCTUATION =>
        (char \in FORBIDDEN_FIRST_CHARS <=> char \notin {"@", "&", "^"})

\* a special character that is not a forbidden first character
C8_Witness ==
    /\ op = "get_char_class"
    /\ ret.cls = "Special Chars"
    /\ char \notin FORBIDDEN_FIRST_CHARS

====
